---- MODULE Spec2Model ----
(***************************************************************************)
(* Model of netgen.py: the generator of BOSH cloud-config network          *)
(* sections.  main() loads a document with `subnets` and `networks`,       *)
(* prepare_subnet_lists() attaches a pool of host addresses to every       *)
(* subnet, load_networks() draws `size` addresses from every pool for      *)
(* every network, and yaml.dump() writes the result.                       *)
(*                                                                         *)
(* Addresses are integers of AddrBits bits.  A textual address of the      *)
(* document is the record [ip |-> n]; netaddr.IPAddress() parses it and    *)
(* str() renders it.  A Python dict is a function over its keys, so that   *)
(* `'gateway' in subnet` is "gateway" \in DOMAIN subnet.  The entries of   *)
(* the two input lists are fixed when the loop that iterates over them     *)
(* reaches them: the code only iterates and never looks ahead.             *)
(* addresses_log records the local `addresses` of every completed          *)
(* iteration of build_subnets, and input_subnets the subnets as loaded.    *)
(***************************************************************************)
EXTENDS Integers, Sequences, FiniteSets, TLC

VARIABLES pc, config_subnets, config_networks, subnet_list, net_list,
          output, error, addresses_log, input_subnets

vars == <<pc, config_subnets, config_networks, subnet_list, net_list,
          output, error, addresses_log, input_subnets>>

\* -------------------------------------------------------------- bounds
\* Width of an address in bits (32 for the IPv4 addresses of netaddr).
AddrBits == 9

\* Most subnets in the document.
MaxSubnets == 2

\* Most network requests in the document.
MaxNetworks == 2

\* Largest `size` a network request asks for.
MaxSize == 2

\* ------------------------------------------------------------- helpers
RECURSIVE Pow2(_)
Pow2(n) == IF n <= 0 THEN 1 ELSE 2 * Pow2(n - 1)

Elems(s) == {s[i] : i \in 1..Len(s)}

\* d[k] = v of a Python dict.
SetItem(d, k, v) == (k :> v) @@ d

NoError == [type |-> "none", args |-> <<>>]

\* d[k] of a missing key.
KeyError(k) == [type |-> "KeyError", args |-> <<k>>]

\* list.pop(0) of an empty list.
PopError == [type |-> "IndexError", args |-> <<"pop from empty list">>]

\* list[i] with i out of range.
IndexError == [type |-> "IndexError", args |-> <<"list index out of range">>]

\* list.remove(x) of an absent x.
RemoveError == [type |-> "ValueError", args |-> <<"list.remove(x): x not in list">>]

\* ------------------------------------------------------------- netaddr
\* netaddr.IPAddress(text): the address a textual address denotes.
IPAddress(text) == text.ip

\* str(address): the text of an address.
Str(address) == [ip |-> address]

\* An IPAddress object stored where the document holds text (the derived
\* gateway): [addr |-> n], which str() renders as str() renders n.
Object(address) == [addr |-> address]

\* str(value) of a dict value that is text or an IPAddress object.
StrValue(value) == IF "ip" \in DOMAIN value THEN value ELSE Str(value.addr)

\* netaddr.IPNetwork(range): first and last address of the CIDR block (the
\* network and the broadcast address), the host bits of `addr` cleared.
IPNetwork(range) ==
    LET size == Pow2(AddrBits - range.prefixlen)
        first == range.addr - (range.addr % size)
    IN  [first |-> first, last |-> first + size - 1]

\* list(ip_network.iter_hosts()) of a block of at least four addresses:
\* every address but the network and the broadcast address.
iter_hosts(ip_network) ==
    [i \in 1..(ip_network.last - ip_network.first - 1) |-> ip_network.first + i]

\* list.sort(): the elements in ascending order, equal ones in the order they
\* had (every element goes to the place its rank gives it).
Sort(s) ==
    LET n == Len(s)
        place == [j \in 1..n |->
                     Cardinality({k \in 1..n : s[k] < s[j] \/ (s[k] = s[j] /\ k < j)}) + 1]
    IN  [i \in 1..n |-> s[CHOOSE j \in 1..n : place[j] = i]]

\* list.remove(v) of a present v: the list without its first v.
RECURSIVE ListRemove(_, _)
ListRemove(s, v) ==
    IF s = <<>> THEN <<>>
    ELSE IF Head(s) = v THEN Tail(s)
    ELSE <<Head(s)>> \o ListRemove(Tail(s), v)

\* Mutants of list_remove: one that ignores an absent v, one that removes the
\* front of the list whatever v is.
list_remove_Front(ip_list, v) ==
    IF v \notin Elems(ip_list)
    THEN [error |-> RemoveError, ip_list |-> ip_list]
    ELSE [error |-> NoError, ip_list |-> Tail(ip_list)]

list_remove_Lenient(ip_list, v) ==
    [error |-> NoError, ip_list |-> ListRemove(ip_list, v)]

list_remove(ip_list, v) ==
    IF v \notin Elems(ip_list)
    THEN [error |-> RemoveError, ip_list |-> ip_list]
    ELSE [error |-> NoError, ip_list |-> ListRemove(ip_list, v)]

\* --------------------------------------------------------------- input
RangeA == [addr |-> 8, prefixlen |-> AddrBits - 3]
RangeB == [addr |-> 16, prefixlen |-> AddrBits - 2]

Ranges == {RangeA, RangeB}

BaseSubnet(r) == [range |-> r, azs |-> <<"z1", "z2">>, dns |-> <<"ns1">>]

\* Declared gateways of RangeA: the network address, a host address with a
\* lower and a higher host address around it, the broadcast address and an
\* address outside the block.
GatewayChoices ==
    LET n == IPNetwork(RangeA)
    IN  {n.first, n.first + 2, n.last, n.last + 1}

\* The subnet entries a document is made of.
SubnetEntries ==
    {BaseSubnet(r) : r \in Ranges}
    \cup {SetItem(BaseSubnet(RangeA), "gateway", Str(g)) : g \in GatewayChoices}
    \cup {SetItem(BaseSubnet(RangeA), "reserved",
                  <<Str(10), [first |-> Str(12), last |-> Str(13)]>>)}
    \cup {SetItem(BaseSubnet(RangeA), "cloud_properties", [name |-> "net-a"])}
    \cup {[range |-> RangeA, dns |-> <<"ns1">>],
          [range |-> RangeA, azs |-> <<"z1", "z2">>],
          [azs |-> <<"z1", "z2">>, dns |-> <<"ns1">>]}

NetworkNames == <<"jumpbox", "vault", "concourse", "cf">>

\* The network entries a document is made of, but for their names.
NetworkFields ==
    {[size |-> s, static |-> t] : s \in 0..MaxSize, t \in 0..MaxSize}
    \cup {[size |-> 1], [static |-> 1], [size |-> 1, static |-> 0, type |-> "vip"]}

NetworkEntries(i) == {SetItem(f, "name", NetworkNames[i]) : f \in NetworkFields}

\* The entries the i-th network of a document is one of, for every i.
NetworkEntriesByPlace == [i \in 1..Len(NetworkNames) |-> NetworkEntries(i)]

\* The sample of the module docstring.  Its block 192.168.123.0/24 is the
\* block of 256 addresses at 256: address 256 + k stands for 192.168.123.k.
SampleRange == [addr |-> 256, prefixlen |-> AddrBits - 8]

SampleSubnet ==
    [range |-> SampleRange, azs |-> <<"z1", "z2", "z3">>, dns |-> <<"192.168.5.1">>]

SampleSubnets == {SampleSubnet}

\* The sizes and static counts of the sample's networks, and no static.
SampleNetworkFields == {[size |-> s, static |-> t] : s \in {2, 4}, t \in {0, 1, 3}}

SampleNetworkEntries(i) ==
    {SetItem(f, "name", NetworkNames[i]) : f \in SampleNetworkFields}

SampleNetworkEntriesByPlace == [i \in 1..Len(NetworkNames) |-> SampleNetworkEntries(i)]

\* ------------------------------------------------- prepare_subnet_lists
\* One iteration of the loop of prepare_subnet_lists over `subnet`.
PrepareSubnetBody(subnet) ==
    IF "range" \notin DOMAIN subnet
    THEN [error |-> KeyError("range"), subnet |-> subnet]
    ELSE
    LET ip_network == IPNetwork(subnet.range)
        ip_list == Sort(iter_hosts(ip_network))
    IN  IF "gateway" \notin DOMAIN subnet
        THEN IF ip_list = <<>>
             THEN [error |-> PopError, subnet |-> subnet]
             ELSE [error |-> NoError,
                   subnet |-> SetItem(SetItem(SetItem(subnet,
                                  "gateway", Object(Head(ip_list))),
                                  "list", Tail(ip_list)),
                                  "ip_network", ip_network)]
        ELSE LET removed == list_remove(ip_list, IPAddress(subnet.gateway))
             IN  IF removed.error # NoError
                 THEN [error |-> removed.error, subnet |-> subnet]
                 ELSE [error |-> NoError,
                       subnet |-> SetItem(SetItem(subnet,
                                      "list", removed.ip_list),
                                      "ip_network", ip_network)]

\* --------------------------------------------------- pull_out_addresses
\* The while loop: pop from the front until net_size addresses are held.
RECURSIVE PullLoop(_, _, _)
PullLoop(address_list, ip_list, net_size) ==
    IF Len(address_list) >= net_size
    THEN [error |-> NoError, address_list |-> address_list, ip_list |-> ip_list]
    ELSE IF ip_list = <<>>
    THEN [error |-> PopError, address_list |-> address_list, ip_list |-> ip_list]
    ELSE PullLoop(Append(address_list, Head(ip_list)), Tail(ip_list), net_size)

\* Mutants of pull_out_addresses: one that reads the front of the pool and
\* leaves it in place, one that pops from the back, one that hands out the
\* addresses left when the pool runs short.
pull_out_addresses_NoPop(ip_list, net_size) ==
    LET r == PullLoop(<<>>, ip_list, net_size)
    IN  [r EXCEPT !.ip_list = ip_list]

RECURSIVE PullBackLoop(_, _, _)
PullBackLoop(address_list, ip_list, net_size) ==
    IF Len(address_list) >= net_size
    THEN [error |-> NoError, address_list |-> address_list, ip_list |-> ip_list]
    ELSE IF ip_list = <<>>
    THEN [error |-> PopError, address_list |-> address_list, ip_list |-> ip_list]
    ELSE PullBackLoop(Append(address_list, ip_list[Len(ip_list)]),
                      SubSeq(ip_list, 1, Len(ip_list) - 1), net_size)

pull_out_addresses_PopBack(ip_list, net_size) ==
    LET r == PullBackLoop(<<>>, ip_list, net_size)
    IN  [r EXCEPT !.address_list = Sort(r.address_list)]

\* Mutant of pull_out_addresses: a loop that pops before it tests.
pull_out_addresses_PopThenTest(ip_list, net_size) ==
    IF ip_list = <<>>
    THEN [error |-> PopError, address_list |-> <<>>, ip_list |-> ip_list]
    ELSE PullLoop(<<Head(ip_list)>>, Tail(ip_list), net_size)

pull_out_addresses_Short(ip_list, net_size) ==
    LET r == PullLoop(<<>>, ip_list, net_size)
    IN  [r EXCEPT !.error = NoError]

pull_out_addresses(ip_list, net_size) == PullLoop(<<>>, ip_list, net_size)

\* -------------------------------------------------- format_subnet_range
\* Mutant of format_subnet_range: the endpoints are never swapped.
format_subnet_range_NoSwap(start_address, end_address) ==
    IF start_address = end_address
    THEN Str(start_address)
    ELSE [first |-> Str(start_address), last |-> Str(end_address)]

format_subnet_range(start_address, end_address) ==
    IF start_address = end_address
    THEN Str(start_address)
    ELSE IF start_address < end_address
    THEN [first |-> Str(start_address), last |-> Str(end_address)]
    ELSE [first |-> Str(end_address), last |-> Str(start_address)]

\* The addresses a textual range (an address, or "first - last") covers.
Covered(text) ==
    IF "ip" \in DOMAIN text THEN {IPAddress(text)}
    ELSE IPAddress(text.first)..IPAddress(text.last)

CoveredAll(texts) == UNION {Covered(texts[i]) : i \in 1..Len(texts)}

\* -------------------------------------------------------- build_subnets
\* subnet_reserved of one iteration: the gap before and the gap after.
\* Mutants of SubnetReserved: the gap after the block is listed first, starts
\* one address late, or starts at the last address of the block.
SubnetReserved_AfterFirst(first_in_network, last_in_network, first_address, last_address) ==
    (IF last_in_network > last_address
     THEN <<format_subnet_range(last_address + 1, last_in_network)>>
     ELSE <<>>)
    \o
    (IF first_in_network < first_address
     THEN <<format_subnet_range(first_in_network, first_address - 1)>>
     ELSE <<>>)

SubnetReserved_Late(first_in_network, last_in_network, first_address, last_address) ==
    (IF first_in_network < first_address
     THEN <<format_subnet_range(first_in_network, first_address - 1)>>
     ELSE <<>>)
    \o
    (IF last_in_network > last_address + 1
     THEN <<format_subnet_range(last_address + 2, last_in_network)>>
     ELSE <<>>)

SubnetReserved_Early(first_in_network, last_in_network, first_address, last_address) ==
    (IF first_in_network < first_address
     THEN <<format_subnet_range(first_in_network, first_address - 1)>>
     ELSE <<>>)
    \o
    (IF last_in_network > last_address
     THEN <<format_subnet_range(last_address, last_in_network)>>
     ELSE <<>>)

SubnetReserved(first_in_network, last_in_network, first_address, last_address) ==
    (IF first_in_network < first_address
     THEN <<format_subnet_range(first_in_network, first_address - 1)>>
     ELSE <<>>)
    \o
    (IF last_in_network > last_address
     THEN <<format_subnet_range(last_address + 1, last_in_network)>>
     ELSE <<>>)

\* Mutant of SubnetStatic: the range runs to the last popped address.
SubnetStatic_WholeBlock(addresses, net_static) ==
    IF net_static > 0
    THEN <<format_subnet_range(addresses[1], addresses[Len(addresses)])>>
    ELSE <<>>

\* subnet_static of one iteration, net_static - 1 being a valid index.
SubnetStatic(addresses, net_static) ==
    IF net_static > 0
    THEN <<format_subnet_range(addresses[1], addresses[net_static])>>
    ELSE <<>>

\* The first key among `keys`, in the order read, that dict `d` lacks.
MissingKey_IgnoresStatic(d, keys) ==
    LET missing == {i \in 1..Len(keys) : keys[i] \notin DOMAIN d /\ keys[i] # "static"}
    IN  IF missing = {} THEN "" ELSE keys[CHOOSE i \in missing : \A j \in missing : i <= j]

MissingKey(d, keys) ==
    LET missing == {i \in 1..Len(keys) : keys[i] \notin DOMAIN d}
    IN  IF missing = {} THEN "" ELSE keys[CHOOSE i \in missing : \A j \in missing : i <= j]

\* One iteration of the loop of build_subnets over subnet x: the error raised
\* (or none), x with its pool drawn down, the popped addresses and the Subnet.
BuildSubnetBody(x, net_size, net_static) ==
    LET nothing == [error |-> NoError, x |-> x, addresses |-> <<>>, subnet |-> <<>>]
        key == MissingKey(x, <<"azs", "dns", "range", "gateway">>)
    IN
    IF key # "" THEN [nothing EXCEPT !.error = KeyError(key)]
    ELSE
    LET pulled == pull_out_addresses(x.list, net_size)
        addresses == pulled.address_list
        drawn == [nothing EXCEPT !.x = SetItem(x, "list", pulled.ip_list),
                                 !.addresses = addresses]
    IN
    IF pulled.error # NoError THEN [drawn EXCEPT !.error = pulled.error]
    ELSE IF addresses = <<>> THEN [drawn EXCEPT !.error = IndexError]
    ELSE IF net_static > Len(addresses) THEN [drawn EXCEPT !.error = IndexError]
    ELSE [drawn EXCEPT !.subnet =
              [azs |-> x.azs,
               range |-> x.range,
               dns |-> x.dns,
               reserved |-> SubnetReserved(x.ip_network.first, x.ip_network.last,
                                           addresses[1], addresses[Len(addresses)]),
               gateway |-> StrValue(x.gateway),
               static |-> SubnetStatic(addresses, net_static)]]

\* ---------------------------------------------------------------- state
\* pc: "prepare" in the loop of prepare_subnet_lists, "load" at the head of
\* the loop of load_networks, "build" in the loop of build_subnets for the
\* last entry of config_networks, "done" after yaml.dump, "aborted" after an
\* exception left main.
Init ==
    /\ pc = "prepare"
    /\ config_subnets = <<>>
    /\ config_networks = <<>>
    /\ subnet_list = <<>>
    /\ net_list = <<>>
    /\ output = <<>>
    /\ error = NoError
    /\ addresses_log = <<>>
    /\ input_subnets = <<>>

Abort(e) ==
    /\ pc' = "aborted"
    /\ error' = e

\* prepare_subnet_lists, one iteration: the next subnet of a document made
\* of `entries`.
PrepareSubnetFrom(entries) ==
    /\ pc = "prepare"
    /\ Len(input_subnets) < MaxSubnets
    /\ \E subnet \in entries :
         LET r == PrepareSubnetBody(subnet)
         IN  /\ input_subnets' = Append(input_subnets, subnet)
             /\ config_subnets' = Append(config_subnets, r.subnet)
             /\ IF r.error = NoError
                THEN UNCHANGED <<pc, error>>
                ELSE Abort(r.error)
    /\ UNCHANGED <<config_networks, subnet_list, net_list, output, addresses_log>>

PrepareSubnet == PrepareSubnetFrom(SubnetEntries)

PrepareSampleSubnet == PrepareSubnetFrom(SampleSubnets)

\* prepare_subnet_lists returns: the document holds no further subnet.
PrepareReturn ==
    /\ pc = "prepare"
    /\ pc' = "load"
    /\ UNCHANGED <<config_subnets, config_networks, subnet_list, net_list,
                   output, error, addresses_log, input_subnets>>

\* load_networks, head of one iteration: the next network of a document
\* whose i-th network is one of entries[i], its fields read in the order
\* name, type, size, static.
LoadEntryFrom(entries) ==
    /\ pc = "load"
    /\ Len(config_networks) < MaxNetworks
    /\ \E entry \in entries[Len(config_networks) + 1] :
         LET key == MissingKey(entry, <<"name", "size", "static">>)
         IN  /\ config_networks' = Append(config_networks, entry)
             /\ IF key = ""
                THEN /\ pc' = "build"
                     /\ UNCHANGED error
                ELSE Abort(KeyError(key))
    /\ subnet_list' = <<>>
    /\ UNCHANGED <<config_subnets, net_list, output, addresses_log, input_subnets>>

LoadEntry == LoadEntryFrom(NetworkEntriesByPlace)

LoadSampleEntry == LoadEntryFrom(SampleNetworkEntriesByPlace)

\* build_subnets, one iteration, for the network being loaded.
BuildSubnet ==
    /\ pc = "build"
    /\ Len(subnet_list) < Len(config_subnets)
    /\ LET entry == config_networks[Len(config_networks)]
           i == Len(subnet_list) + 1
           r == BuildSubnetBody(config_subnets[i], entry.size, entry.static)
       IN  /\ config_subnets' = [config_subnets EXCEPT ![i] = r.x]
           /\ IF r.error = NoError
              THEN /\ subnet_list' = Append(subnet_list, r.subnet)
                   /\ addresses_log' = Append(addresses_log,
                          [network |-> Len(config_networks), subnet |-> i,
                           addresses |-> r.addresses])
                   /\ UNCHANGED <<pc, error>>
              ELSE /\ Abort(r.error)
                   /\ UNCHANGED <<subnet_list, addresses_log>>
    /\ UNCHANGED <<config_networks, net_list, output, input_subnets>>

\* build_subnets returns and load_networks appends the Network.
BuildReturn ==
    /\ pc = "build"
    /\ Len(subnet_list) = Len(config_subnets)
    /\ LET entry == config_networks[Len(config_networks)]
       IN  net_list' = Append(net_list,
               [name |-> entry.name,
                type |-> IF "type" \in DOMAIN entry THEN entry.type ELSE "manual",
                subnets |-> subnet_list])
    /\ pc' = "load"
    /\ UNCHANGED <<config_subnets, config_networks, subnet_list, output, error,
                   addresses_log, input_subnets>>

\* load_networks returns (the document holds no further network) and main
\* dumps the Networks object to the output stream.
Dump ==
    /\ pc = "load"
    /\ output' = Append(output, [networks |-> net_list])
    /\ pc' = "done"
    /\ UNCHANGED <<config_subnets, config_networks, subnet_list, net_list,
                   error, addresses_log, input_subnets>>

Next ==
    \/ PrepareSubnet
    \/ PrepareReturn
    \/ LoadEntry
    \/ BuildSubnet
    \/ BuildReturn
    \/ Dump

Spec == Init /\ [][Next]_vars

\* The runs over documents made of the sample's subnet and of networks of the
\* sample's sizes.
NextSample ==
    \/ PrepareSampleSubnet
    \/ PrepareReturn
    \/ LoadSampleEntry
    \/ BuildSubnet
    \/ BuildReturn
    \/ Dump

SpecSample == Init /\ [][NextSample]_vars

\* --------------------------------------------------------------- claims
\* The host addresses of a subnet entry's CIDR block.
HostsOf(subnet) ==
    (IPNetwork(subnet.range).first + 1)..(IPNetwork(subnet.range).last - 1)

\* The whole CIDR block of a subnet entry.
BlockOf(subnet) == IPNetwork(subnet.range).first..IPNetwork(subnet.range).last

\* The gateway address of a prepared subnet.
GatewayOf(x) == IPAddress(StrValue(x.gateway))

Log == {addresses_log[k] : k \in 1..Len(addresses_log)}

\* The records of two different networks for one subnet, r before s.
Consecutive(r, s) == r.subnet = s.subnet /\ r.network < s.network

\* The AllocatedSubnet built from the draw that log record r describes.
AllocatedSubnetOf(r) ==
    IF r.network <= Len(net_list)
    THEN net_list[r.network].subnets[r.subnet]
    ELSE subnet_list[r.subnet]

\* The n numerically smallest elements of the set S.
Smallest(S, n) == {a \in S : Cardinality({b \in S : b < a}) < n}

\* C1: no address is handed to two different networks: an address popped from
\* a subnet's pool for one network is in no later network's popped list for
\* that subnet.
C1_NoAddressTwice ==
    \A r, s \in Log :
        Consecutive(r, s) => Elems(r.addresses) \cap Elems(s.addresses) = {}

C1_Witness ==
    /\ pc = "done"
    /\ \E r, s \in Log : Consecutive(r, s) /\ Len(r.addresses) = 2 /\ Len(s.addresses) = 2

\* The network being built asks for more addresses than the pool of a subnet
\* it has still to draw from holds.
Exhausting ==
    /\ pc = "build"
    /\ \E i \in (Len(subnet_list) + 1)..Len(config_subnets) :
           Len(config_subnets[i].list) < config_networks[Len(config_networks)].size

\* C2: when a network is processed and some subnet's pool holds fewer
\* addresses than its size, the run aborts with an error and the output is
\* never written: from such a state the run stays in such a state or aborts,
\* nothing is written, and an aborted run takes no further step.
C2_ExhaustionAborts ==
    [][/\ Exhausting =>
            /\ output' = <<>>
            /\ Exhausting' \/ (pc' = "aborted" /\ error' # NoError)
       /\ pc = "aborted" => output = <<>> /\ UNCHANGED vars]_vars

C2_Witness ==
    /\ pc = "aborted"
    /\ error = PopError
    /\ Len(net_list) >= 1
    /\ Len(subnet_list) >= 1
    /\ output = <<>>

\* C3: no address of a reservation a subnet declares is allocated to any
\* network.
C3_ReservedNeverAllocated ==
    \A r \in Log :
        "reserved" \in DOMAIN input_subnets[r.subnet] =>
            Elems(r.addresses) \cap CoveredAll(input_subnets[r.subnet].reserved) = {}

\* The addresses allocated to all networks in subnet i.
AllocatedIn(i) == UNION {Elems(r.addresses) : r \in {s \in Log : s.subnet = i}}

\* The addresses of the gap ranges computed for all networks in subnet i.
GapsIn(i) == UNION {CoveredAll(AllocatedSubnetOf(r).reserved) : r \in {s \in Log : s.subnet = i}}

\* The addresses of the reservations subnet i declares.
DeclaredIn(i) ==
    IF "reserved" \in DOMAIN input_subnets[i]
    THEN CoveredAll(input_subnets[i].reserved)
    ELSE {}

\* C4 as stated: after a complete successful run (of at least one network),
\* for every subnet the gateway, the allocated addresses and all reserved
\* ranges, declared and computed, are exactly the host range, and no address
\* is in two of them.
C4_PartitionOfHosts ==
    (pc = "done" /\ net_list # <<>>) =>
        \A i \in 1..Len(config_subnets) :
            /\ {GatewayOf(config_subnets[i])} \cup AllocatedIn(i)
                   \cup GapsIn(i) \cup DeclaredIn(i) = HostsOf(config_subnets[i])
            /\ GatewayOf(config_subnets[i]) \notin AllocatedIn(i) \cup GapsIn(i) \cup DeclaredIn(i)
            /\ AllocatedIn(i) \cap (GapsIn(i) \cup DeclaredIn(i)) = {}
            /\ GapsIn(i) \cap DeclaredIn(i) = {}

\* C4 as amended: after a complete successful run of at least one network,
\* for every subnet the gateway, the allocated addresses and the computed gap
\* ranges together are exactly the CIDR block, network and broadcast address
\* included; the gateway is allocated to no network and no address is
\* allocated to two networks.
C4_CoverOfBlock ==
    (pc = "done" /\ net_list # <<>>) =>
        \A i \in 1..Len(config_subnets) :
            /\ {GatewayOf(config_subnets[i])} \cup AllocatedIn(i) \cup GapsIn(i)
                   = BlockOf(config_subnets[i])
            /\ GatewayOf(config_subnets[i]) \notin AllocatedIn(i)
            /\ \A r, s \in Log :
                   (r.subnet = i /\ s.subnet = i /\ r # s) =>
                       Elems(r.addresses) \cap Elems(s.addresses) = {}

C4_Witness ==
    /\ pc = "done"
    /\ Len(net_list) = 2
    /\ \E i \in 1..Len(config_subnets) :
           /\ "gateway" \in DOMAIN input_subnets[i]
           /\ Cardinality(AllocatedIn(i)) >= 3

\* C5 as stated: the reserved ranges of a network's AllocatedSubnet contain no
\* address of the network's own block, not the subnet's gateway, and no
\* address of a reservation the subnet declares.
C5_ReservedExcludesAll ==
    \A r \in Log :
        LET reserved == CoveredAll(AllocatedSubnetOf(r).reserved)
        IN  /\ reserved \cap Elems(r.addresses) = {}
            /\ GatewayOf(config_subnets[r.subnet]) \notin reserved
            /\ reserved \cap DeclaredIn(r.subnet) = {}

\* C5 as amended: the reserved ranges of a network's AllocatedSubnet contain
\* no address of the network's own block; they contain the subnet's gateway
\* exactly when it lies outside the span from the first to the last address
\* of the block, which a derived gateway always does.
C5_ReservedExcludesOwnBlock ==
    \A r \in Log :
        LET reserved == CoveredAll(AllocatedSubnetOf(r).reserved)
            span == r.addresses[1]..r.addresses[Len(r.addresses)]
            gateway == GatewayOf(config_subnets[r.subnet])
        IN  /\ reserved \cap Elems(r.addresses) = {}
            /\ gateway \in reserved <=> gateway \notin span
            /\ "gateway" \notin DOMAIN input_subnets[r.subnet] => gateway \in reserved

C5_Witness ==
    \E r \in Log :
        /\ Len(AllocatedSubnetOf(r).reserved) = 2
        /\ Len(r.addresses) = 2
        /\ "gateway" \in DOMAIN input_subnets[r.subnet]
        /\ GatewayOf(config_subnets[r.subnet]) \in r.addresses[1]..r.addresses[2]

\* C6: for a network with static > 0, the emitted static range covers exactly
\* the `static` numerically smallest addresses of the network's allocation in
\* the subnet, also when a declared gateway lies between two of them.
C6_StaticIsPrefix ==
    \A r \in Log :
        LET net_static == config_networks[r.network].static
        IN  net_static > 0 =>
                CoveredAll(AllocatedSubnetOf(r).static)
                    = Smallest(Elems(r.addresses), net_static)

\* C7: of two networks drawing from one subnet, every address of the one
\* declared first is smaller than every address of the other.
C7_EarlierIsSmaller ==
    \A r, s \in Log :
        Consecutive(r, s) =>
            \A a \in Elems(r.addresses), b \in Elems(s.addresses) : a < b

C7_Witness ==
    \E r, s \in Log :
        /\ Consecutive(r, s)
        /\ Len(s.addresses) = 2
        /\ "gateway" \in DOMAIN input_subnets[r.subnet]
        /\ GatewayOf(config_subnets[r.subnet]) \in r.addresses[1]..s.addresses[2]

\* The pool a prepared subnet starts with: its hosts but for the gateway.
PreparedPool(x) == HostsOf(x) \ {GatewayOf(x)}

\* C8 as stated: when the run aborts on a missing required field, no address
\* has been popped from any pool for any network.
C8_AbortBeforeAllocation ==
    (pc = "aborted" /\ error.type = "KeyError") =>
        /\ addresses_log = <<>>
        /\ \A i \in 1..Len(config_subnets) :
               "list" \in DOMAIN config_subnets[i] =>
                   Elems(config_subnets[i].list) = PreparedPool(config_subnets[i])

\* The entry is read by a step that finds one of `keys` missing from it.
Lacks(d, keys) == \E i \in 1..Len(keys) : keys[i] \notin DOMAIN d

\* C8 as amended: a network entry without name, size or static and a subnet
\* without range abort the run with a KeyError when the loop reaches them,
\* and a subnet without azs or dns when the first network is built; nothing
\* is written, and the draws of the networks and subnets before the faulty
\* entry have been made by then (a run of no networks ends well whatever azs
\* and dns are).
C8_AbortWhenRead ==
    /\ \A k \in 1..Len(config_networks) :
           Lacks(config_networks[k], <<"name", "size", "static">>) =>
               /\ k = Len(config_networks)
               /\ pc = "aborted" /\ error.type = "KeyError"
               /\ error.args[1] \notin DOMAIN config_networks[k]
    /\ \A i \in 1..Len(input_subnets) :
           /\ "range" \notin DOMAIN input_subnets[i] =>
                  pc = "aborted" /\ error = KeyError("range") /\ config_networks = <<>>
           /\ Lacks(input_subnets[i], <<"azs", "dns">>) =>
                  /\ net_list = <<>>
                  /\ Len(subnet_list) < i
                  /\ \A r \in Log : r.subnet < i
                  /\ pc = "done" => config_networks = <<>>
    /\ (pc = "aborted" /\ error.type = "KeyError") =>
           /\ output = <<>>
           /\ config_networks # <<>> =>
                  Len(addresses_log) =
                      (Len(config_networks) - 1) * Len(config_subnets) + Len(subnet_list)

C8_Witness ==
    /\ pc = "aborted"
    /\ error = KeyError("static")
    /\ Len(config_networks) = 2
    /\ Len(addresses_log) = 2

\* A subnet entry whose declared gateway is no host address of its block.
GatewayMismatch(subnet) ==
    /\ "range" \in DOMAIN subnet
    /\ "gateway" \in DOMAIN subnet
    /\ IPAddress(subnet.gateway) \notin HostsOf(subnet)

\* C9: a subnet whose declared gateway is no host address of its CIDR block
\* aborts the run during pool preparation: no network draws from any pool
\* and nothing is written.
C9_GatewayMismatchAborts ==
    (\E i \in 1..Len(input_subnets) : GatewayMismatch(input_subnets[i])) =>
        /\ pc = "aborted"
        /\ error = RemoveError
        /\ config_networks = <<>>
        /\ addresses_log = <<>>
        /\ output = <<>>

C9_Witness ==
    /\ pc = "aborted"
    /\ Len(input_subnets) = 2
    /\ "list" \in DOMAIN config_subnets[1]
    /\ GatewayMismatch(input_subnets[2])
    /\ IPAddress(input_subnets[2].gateway) = IPNetwork(input_subnets[2].range).last

\* C10: when the run aborts for pool exhaustion, the error names the failing
\* network, the subnet's range, the requested size and the number of
\* addresses that remained in the pool.
C10_ExhaustionIsIdentified ==
    (pc = "aborted" /\ error.type = "IndexError" /\ error.args[1] = "pop from empty list") =>
        /\ Len(error.args) = 5
        /\ error.args[2] = config_networks[Len(config_networks)].name
        /\ error.args[3] = config_subnets[Len(subnet_list) + 1].range
        /\ error.args[4] = config_networks[Len(config_networks)].size
        /\ error.args[5] \in 0..(error.args[4] - 1)

\* C11: every AllocatedSubnet carries the cloud_properties of its input
\* subnet unchanged when the input subnet has them, and has no such field
\* when the input subnet has none.
C11_CloudPropertiesCarried ==
    \A r \in Log :
        IF "cloud_properties" \in DOMAIN input_subnets[r.subnet]
        THEN /\ "cloud_properties" \in DOMAIN AllocatedSubnetOf(r)
             /\ AllocatedSubnetOf(r).cloud_properties
                    = input_subnets[r.subnet].cloud_properties
        ELSE "cloud_properties" \notin DOMAIN AllocatedSubnetOf(r)

\* The text of the sample address 192.168.123.k.
Sample(k) == Str(IPNetwork(SampleRange).first + k)

SampleRangeText(j, k) == [first |-> Sample(j), last |-> Sample(k)]

\* The document is the sample of the module docstring and the run is over.
SampleRun ==
    /\ pc = "done"
    /\ input_subnets = <<SampleSubnet>>
    /\ config_networks = <<[name |-> "jumpbox", size |-> 2, static |-> 1],
                           [name |-> "vault", size |-> 4, static |-> 3]>>

SampleAllocatedSubnet(reserved, static) ==
    [azs |-> <<"z1", "z2", "z3">>,
     dns |-> <<"192.168.5.1">>,
     gateway |-> Sample(1),
     range |-> SampleRange,
     reserved |-> reserved,
     static |-> static]

\* C12: the sample (subnet 192.168.123.0/24, jumpbox of size 2 and static 1,
\* vault of size 4 and static 3) yields gateway .1, jumpbox allocated .2-.3
\* with static [.2] and reserved [.0 - .1, .4 - .255], vault allocated .4-.7
\* with static [.4 - .6] and reserved [.0 - .3, .8 - .255].
C12_Sample ==
    SampleRun =>
        /\ addresses_log =
               <<[network |-> 1, subnet |-> 1,
                  addresses |-> <<IPAddress(Sample(2)), IPAddress(Sample(3))>>],
                 [network |-> 2, subnet |-> 1,
                  addresses |-> <<IPAddress(Sample(4)), IPAddress(Sample(5)),
                                  IPAddress(Sample(6)), IPAddress(Sample(7))>>]>>
        /\ output =
               <<[networks |->
                   <<[name |-> "jumpbox", type |-> "manual",
                      subnets |-> <<SampleAllocatedSubnet(
                          <<SampleRangeText(0, 1), SampleRangeText(4, 255)>>,
                          <<Sample(2)>>)>>],
                     [name |-> "vault", type |-> "manual",
                      subnets |-> <<SampleAllocatedSubnet(
                          <<SampleRangeText(0, 3), SampleRangeText(8, 255)>>,
                          <<SampleRangeText(4, 6)>>)>>]>>]>>

C12_Witness == SampleRun /\ Len(output) = 1

\* C13: after pool preparation every subnet has a gateway that is not in its
\* pool: the lowest host address of the block when none is declared, the
\* declared address otherwise, and the pool is the hosts without exactly that
\* address until the first draw; the gateway is never allocated.
C13_GatewayOutOfPool ==
    \A i \in 1..Len(config_subnets) :
        "list" \in DOMAIN config_subnets[i] =>
            LET x == config_subnets[i]
            IN  /\ GatewayOf(x) \notin Elems(x.list)
                /\ GatewayOf(x) \notin AllocatedIn(i)
                /\ GatewayOf(x) \in HostsOf(x)
                /\ IF "gateway" \in DOMAIN input_subnets[i]
                   THEN GatewayOf(x) = IPAddress(input_subnets[i].gateway)
                   ELSE \A a \in HostsOf(x) : GatewayOf(x) <= a
                /\ config_networks = <<>> =>
                       /\ Elems(x.list) = HostsOf(x) \ {GatewayOf(x)}
                       /\ Len(x.list) = Cardinality(HostsOf(x)) - 1

C13_Witness ==
    /\ pc = "done"
    /\ \E r \in Log :
           /\ "gateway" \in DOMAIN input_subnets[r.subnet]
           /\ GatewayOf(config_subnets[r.subnet]) \in r.addresses[1]..r.addresses[Len(r.addresses)]
    /\ \E r \in Log : "gateway" \notin DOMAIN input_subnets[r.subnet]

\* The smallest and the largest element of a set of addresses.
Min(S) == CHOOSE a \in S : \A b \in S : a <= b

Max(S) == CHOOSE a \in S : \A b \in S : b <= a

\* C14: with first and last the smallest and the largest popped address, the
\* reserved list is the range from the block's first address to first - 1 if
\* and only if the block's first address < first, followed by the range from
\* last + 1 to the block's last address if and only if the block's last
\* address > last, and nothing else.
C14_ReservedIsTheTwoGaps ==
    \A r \in Log :
        LET reserved == AllocatedSubnetOf(r).reserved
            block == config_subnets[r.subnet].ip_network
            first == Min(Elems(r.addresses))
            last == Max(Elems(r.addresses))
            before == block.first < first
            after == block.last > last
        IN  /\ Len(reserved) = (IF before THEN 1 ELSE 0) + (IF after THEN 1 ELSE 0)
            /\ before => Covered(reserved[1]) = block.first..(first - 1)
            /\ after => Covered(reserved[Len(reserved)]) = (last + 1)..block.last

C14_Witness ==
    \E r \in Log :
        /\ Len(AllocatedSubnetOf(r).reserved) = 2
        /\ Covered(AllocatedSubnetOf(r).reserved[2])
               = {config_subnets[r.subnet].ip_network.last}
        /\ Covered(AllocatedSubnetOf(r).reserved[1])
               = {config_subnets[r.subnet].ip_network.first, GatewayOf(config_subnets[r.subnet])}

Ascending(list) == \A j \in 1..(Len(list) - 1) : list[j] < list[j + 1]

PoolsAscending ==
    \A i \in 1..Len(config_subnets) :
        "list" \in DOMAIN config_subnets[i] => Ascending(config_subnets[i].list)

\* A completed iteration of build_subnets takes the `size` smallest addresses
\* of the pool of its subnet, removes exactly those and leaves the other
\* pools alone.
DrawsSmallest ==
    (pc = "build" /\ Len(subnet_list') = Len(subnet_list) + 1) =>
        LET i == Len(subnet_list) + 1
            size == config_networks[Len(config_networks)].size
            old == config_subnets[i].list
            new == config_subnets'[i].list
            drawn == addresses_log'[Len(addresses_log')].addresses
        IN  /\ Len(addresses_log') = Len(addresses_log) + 1
            /\ Len(drawn) = size
            /\ Elems(drawn) = Smallest(Elems(old), size)
            /\ Elems(new) = Elems(old) \ Elems(drawn)
            /\ Len(new) = Len(old) - size
            /\ \A j \in 1..Len(config_subnets) :
                   j # i => config_subnets'[j] = config_subnets[j]

\* C15: in every reachable state each subnet's pool is strictly ascending,
\* and each draw of `size` addresses removes exactly the `size` smallest
\* addresses that remain in the pool.
C15_AscendingPoolSmallestFirst == []PoolsAscending /\ [][DrawsSmallest]_vars

C15_Witness ==
    /\ Len(addresses_log) >= 2
    /\ \E r, s \in Log :
           /\ Consecutive(r, s)
           /\ Len(s.addresses) = 2
           /\ "gateway" \in DOMAIN input_subnets[r.subnet]
           /\ Len(config_subnets[r.subnet].list) >= 1

\* The texts of the reserved and static ranges computed for log record r.
ComputedTexts(r) ==
    Elems(AllocatedSubnetOf(r).reserved) \cup Elems(AllocatedSubnetOf(r).static)

\* C16: format_subnet_range(a, b) renders a single address when a = b and
\* otherwise "lo - hi" with lo the smaller and hi the larger of a and b, so
\* that (a, b) and (b, a) render alike, and no computed reserved or static
\* range renders as "X - X".  The endpoints are the addresses of the blocks of
\* the prepared subnets.
C16_FormatNormalises ==
    /\ \A i \in 1..Len(config_subnets) :
           "ip_network" \in DOMAIN config_subnets[i] =>
               \A a, b \in BlockOf(config_subnets[i]) :
                   /\ a = b => format_subnet_range(a, b) = Str(a)
                   /\ a # b => format_subnet_range(a, b) =
                                   [first |-> Str(Min({a, b})), last |-> Str(Max({a, b}))]
                   /\ format_subnet_range(a, b) = format_subnet_range(b, a)
    /\ \A r \in Log : \A t \in ComputedTexts(r) :
           "ip" \in DOMAIN t \/ IPAddress(t.first) < IPAddress(t.last)

C16_Witness ==
    \E r \in Log :
        /\ Len(AllocatedSubnetOf(r).static) = 1
        /\ "ip" \in DOMAIN AllocatedSubnetOf(r).static[1]
        /\ "ip" \in DOMAIN AllocatedSubnetOf(r).reserved[2]
        /\ "first" \in DOMAIN AllocatedSubnetOf(r).reserved[1]

\* C17: each successfully processed network yields one Network whose subnet
\* list has exactly one AllocatedSubnet per input subnet, in the input order,
\* and the request draws `size` addresses from the pool of every subnet.
C17_OneAllocatedSubnetPerSubnet ==
    /\ Len(net_list) <= Len(config_networks)
    /\ \A k \in 1..Len(net_list) :
           /\ net_list[k].name = config_networks[k].name
           /\ Len(net_list[k].subnets) = Len(input_subnets)
           /\ \A i \in 1..Len(input_subnets) :
                  /\ net_list[k].subnets[i].range = input_subnets[i].range
                  /\ net_list[k].subnets[i].azs = input_subnets[i].azs
                  /\ net_list[k].subnets[i].dns = input_subnets[i].dns
                  /\ Cardinality({j \in 1..Len(addresses_log) :
                          /\ addresses_log[j].network = k
                          /\ addresses_log[j].subnet = i}) = 1
                  /\ \A r \in Log :
                         (r.network = k /\ r.subnet = i) =>
                             Len(r.addresses) = config_networks[k].size

C17_Witness ==
    /\ pc = "done"
    /\ Len(net_list) = 1
    /\ Len(input_subnets) = 2
    /\ input_subnets[1].range # input_subnets[2].range
    /\ "gateway" \in DOMAIN input_subnets[2]

\* The sum of the sizes of the first k network requests.
RECURSIVE SumSizes(_)
SumSizes(k) == IF k = 0 THEN 0 ELSE SumSizes(k - 1) + config_networks[k].size

\* Subnet i as pool preparation left it.
PreparedOf(i) == PrepareSubnetBody(input_subnets[i]).subnet

\* C18: after the first k network requests have been processed successfully,
\* each subnet's pool is its prepared pool without its first
\* size_1 + ... + size_k elements, and the rest of the subnet (gateway, range,
\* bounds of the block) is as prepared.
C18_PoolIsPreparedPoolCutShort ==
    pc \in {"load", "done"} =>
        \A i \in 1..Len(config_subnets) :
            LET prepared == PreparedOf(i)
                n == SumSizes(Len(net_list))
            IN  /\ Len(net_list) = Len(config_networks)
                /\ config_subnets[i].list
                       = SubSeq(prepared.list, n + 1, Len(prepared.list))
                /\ Len(config_subnets[i].list) = Len(prepared.list) - n
                /\ [config_subnets[i] EXCEPT !.list = prepared.list] = prepared

C18_Witness ==
    /\ pc = "load"
    /\ Len(net_list) = 2
    /\ SumSizes(2) = 3
    /\ \E i \in 1..Len(config_subnets) :
           /\ "gateway" \in DOMAIN input_subnets[i]
           /\ Len(config_subnets[i].list) = 2

\* The k-th network request has its required fields and asks for no address.
AsksForNothing(k) ==
    /\ ~Lacks(config_networks[k], <<"name", "size", "static">>)
    /\ config_networks[k].size = 0

\* C19 as stated: a network request of size 0 yields no Network: the run
\* aborts at it and nothing is written.
C19_SizeZeroAborts ==
    \A k \in 1..Len(config_networks) :
        AsksForNothing(k) =>
            /\ Len(net_list) < k
            /\ pc # "done"
            /\ output = <<>>

\* C19 as amended: in a document of at least one subnet, a network request of
\* size 0 yields no Network: nothing is popped for it, the run aborts in the
\* first iteration of build_subnets (with the IndexError of addresses[0] when
\* the first subnet has its azs and dns) and nothing is written, whatever the
\* pools hold.
C19_SizeZeroAbortsGivenASubnet ==
    \A k \in 1..Len(config_networks) :
        (AsksForNothing(k) /\ Len(config_subnets) >= 1) =>
            /\ Len(net_list) < k
            /\ k = Len(config_networks)
            /\ pc \in {"build", "aborted"}
            /\ output = <<>>
            /\ subnet_list = <<>>
            /\ \A r \in Log : r.network < k
            /\ \A i \in 1..Len(config_subnets) :
                   config_subnets[i].list =
                       SubSeq(PreparedOf(i).list, SumSizes(k) + 1, Len(PreparedOf(i).list))
            /\ (pc = "aborted" /\ ~Lacks(config_subnets[1], <<"azs", "dns">>)) =>
                   error = IndexError

C19_Witness ==
    /\ pc = "aborted"
    /\ error = IndexError
    /\ Len(config_networks) = 2
    /\ AsksForNothing(2)
    /\ Len(net_list) = 1
    /\ Len(config_subnets[1].list) >= 3

\* C20: in a subnet with no declared gateway every network's block is
\* contiguous (last = first + size - 1), the first network's block starts at
\* the lowest host address + 1 and every other network's block at the last
\* address of the network declared before it + 1.
C20_BlocksAreContiguous ==
    \A r \in Log :
        "gateway" \notin DOMAIN input_subnets[r.subnet] =>
            LET size == config_networks[r.network].size
                first == r.addresses[1]
                last == r.addresses[Len(r.addresses)]
            IN  /\ Len(r.addresses) = size
                /\ last = first + size - 1
                /\ \A j \in 1..size : r.addresses[j] = first + j - 1
                /\ r.network = 1 =>
                       first = Min(HostsOf(config_subnets[r.subnet])) + 1
                /\ r.network > 1 =>
                       \E s \in Log :
                           /\ s.subnet = r.subnet
                           /\ s.network = r.network - 1
                           /\ first = s.addresses[Len(s.addresses)] + 1

C20_Witness ==
    \E r, s \in Log :
        /\ Consecutive(r, s)
        /\ "gateway" \notin DOMAIN input_subnets[r.subnet]
        /\ "reserved" \in DOMAIN input_subnets[r.subnet]
        /\ Len(r.addresses) = 2
        /\ Len(s.addresses) = 2

====
